---- MODULE Spec2Model ----
(***************************************************************************)
(* Tier cascade controllers of the AI router middleware.                   *)
(*                                                                         *)
(* Four deployable programs share one shape (POST /ask-ai -> controller -> *)
(* callAIProvider):                                                        *)
(*   "ZigZagPlain"  src/script.js 1-94      executeZigZag, no deferral     *)
(*   "ZigZagBudget" src/script.js 95-230    executeZigZag, MAX_RETRIES     *)
(*   "ZigZagDefer"  src/unnamed/part_000    executeZigZag, deferral        *)
(*   "FullSweep"    src/script.js 231-371   executeFullSweep               *)
(*                                                                         *)
(* A session runs from one await to the next, so every action below is one *)
(* synchronous segment of the request handler: from the arrival of the     *)
(* request, of a backend outcome or of the cooldown timer, up to the next  *)
(* backend invocation, the next sleep, or the HTTP response.  The          *)
(* recursion of run() is a chain of tail calls ("return await run(..)")    *)
(* whose result is passed up unchanged, so it is modelled as iteration.    *)
(***************************************************************************)
EXTENDS Integers, Sequences, FiniteSets, TLC

\* ---------------------------------------------------------------- bounds
MaxStart == 2       \* start tiers range over -MaxStart..NumTiers+MaxStart
MaxCalls == 21      \* a session is followed while its log is shorter than this
MaxClamp == 60      \* getSafeTier is applied to -MaxClamp..MaxClamp
MaxConcOutcomes == 3  \* outcomes delivered to each of two concurrent sessions

\* ------------------------------------------------------ program constants
NumTiers == 10
MAX_RETRIES == 3
TIMEOUT_BASE == 2000
TIMEOUT_PER_LEVEL == 1300

Variants == {"ZigZagPlain", "ZigZagBudget", "ZigZagDefer", "FullSweep"}
ZigZagVariants == {"ZigZagPlain", "ZigZagBudget", "ZigZagDefer"}
DeferralVariants == {"ZigZagBudget", "ZigZagDefer", "FullSweep"}

StartTiers == (0 - MaxStart)..(NumTiers + MaxStart)
Tiers == 1..NumTiers
SeqSessions == {1}                  \* one request at a time

\* ------------------------------------------------------------ JS values
Null == "null"                      \* the controllers' "no result" value
Payloads == {"answer-A", "B", ""}   \* packages a backend may answer with
Falsy(v) == v = Null \/ v = ""      \* JS truthiness of a result (!result)

Abs(x) == IF x < 0 THEN 0 - x ELSE x
Min(a, b) == IF a < b THEN a ELSE b
Max(a, b) == IF a > b THEN a ELSE b

Range(q) == {q[i] : i \in 1..Len(q)}

\* ------------------------------------------------------------- outcomes
\* One invocation of callAIProvider seen from the controller: the promise
\* resolves with a parseable body (Completed, or Deferred when the body's
\* state is the deferral marker) or it rejects / the body does not parse
\* (Failed, with the HTTP status when there was a response, 0 otherwise).
Statuses == {0, 429, 500, 503}

DeferPackage(v) == IF v = "FullSweep" THEN "climb" ELSE "incomplete"

CompletedOutcomes ==
    [kind : {"Completed"}, payload : Payloads, status : {200}]

FailedOutcomes ==
    [kind : {"Failed"}, payload : {Null}, status : Statuses]

DeferredOutcome(v) ==
    [kind |-> "Deferred", payload |-> DeferPackage(v), status |-> 200]

\* ZigZagPlain never looks at the body's state: every parseable body is a
\* completion there.
OutcomesOf(v) ==
    CompletedOutcomes \cup FailedOutcomes \cup
    (IF v \in DeferralVariants THEN {DeferredOutcome(v)} ELSE {})

NoOutcome == [kind |-> "None", payload |-> Null, status |-> 0]

\* ------------------------------------------------------------ variables
VARIABLES
    variant,      \* which of the four programs is deployed
    pc,           \* per session: "idle", "await", "sleep", "done"
    targetLevel,  \* targetLevel / initialLevel as received
    lv,           \* run()'s lv / executeFullSweep's currentLevel
    tried,        \* the tried / visited Set
    retries,      \* the retries counter (budgeted variant)
    calls,        \* log: tiers handed to callAIProvider, in order
    outcomes,     \* log: kinds of the outcomes received, in order
    last,         \* the outcome received last
    result,       \* value returned by the controller
    exit,         \* which return ended it: "package", "exhausted", "forbidden"
    response,     \* the HTTP response of /ask-ai
    cooldowns,    \* sleep(1500) calls completed since the last outcome
    secretOk,     \* whether the request's secret equals MY_APP_SECRET
    timer         \* the setTimeout of the invocation in flight (budgeted variant)

vars == <<variant, pc, targetLevel, lv, tried, retries, calls, outcomes,
          last, result, exit, response, cooldowns, secretOk, timer>>

\* No timer pending for the invocation in flight.
NoTimer == [state |-> "off", ms |-> 0]

NoResponse == [status |-> 0, package |-> Null]

\* ------------------------------------------------------------ getSafeTier
\* Mutant: Math.abs is dropped.
getSafeTierNoAbs(x) ==
    IF x = 0 THEN 1 ELSE Min(Max(x, 1), NumTiers)

\* Mutant: Math.min(..., 10) is dropped.
getSafeTierNoMin(x) ==
    LET safe == Abs(x)
    IN  IF safe = 0 THEN 1 ELSE Max(safe, 1)

getSafeTier(x) ==
    LET safe == Abs(x)
    IN  IF safe = 0 THEN 1 ELSE Min(Max(safe, 1), NumTiers)

\* ------------------------------------------------- the /ask-ai response
\* What the handler sends once the controller has returned r.
reply(v, r) ==
    IF v = "ZigZagPlain"
    THEN [status |-> 200, package |-> r]
    ELSE IF Falsy(r)
         THEN [status |-> 503, package |-> Null]
         ELSE [status |-> 200, package |-> r]

\* clearTimeout(timeoutId) runs once callAIProvider has resolved (Completed
\* or Deferred); a rejected call (Failed) leaves its timer pending.
clearTimer(kind, tm) ==
    IF kind \in {"Completed", "Deferred"} THEN NoTimer ELSE tm

\* The controller returns r from argument/cursor l; the handler answers.
Finish(s, l, r, how) ==
    /\ pc' = [pc EXCEPT ![s] = "done"]
    /\ lv' = [lv EXCEPT ![s] = l]
    /\ result' = [result EXCEPT ![s] = r]
    /\ exit' = [exit EXCEPT ![s] = how]
    /\ response' = [response EXCEPT ![s] = reply(variant, r)]
    /\ timer' = [timer EXCEPT ![s] = clearTimer(last'[s].kind, @)]
    /\ UNCHANGED <<tried, retries, calls>>

\* Mutant: the tier is invoked without being recorded.
markVisitedForgets(t, l) == t

\* tried.add(lv) / visited.add(currentLevel)
markVisited(t, l) == t \cup {l}

\* setTimeout(() => controller.abort(), TIMEOUT_BASE + lv * TIMEOUT_PER_LEVEL)
timeoutMs(l) == TIMEOUT_BASE + (l * TIMEOUT_PER_LEVEL)

\* The timer set for an invocation of tier l: the budgeted variant alone has one.
armTimer(v, l) ==
    IF v = "ZigZagBudget"
    THEN [state |-> "armed", ms |-> timeoutMs(l)]
    ELSE NoTimer

\* Tier l is marked and handed to callAIProvider; the session suspends.
Invoke(s, l, r) ==
    /\ pc' = [pc EXCEPT ![s] = "await"]
    /\ lv' = [lv EXCEPT ![s] = l]
    /\ tried' = [tried EXCEPT ![s] = markVisited(@, l)]
    /\ retries' = [retries EXCEPT ![s] = r]
    /\ calls' = [calls EXCEPT ![s] = Append(@, l)]
    /\ timer' = [timer EXCEPT ![s] = armTimer(variant, l)]
    /\ UNCHANGED <<result, exit, response>>

\* Mutant: one Set at module level, shared by every session.
triedOfShared(s) == UNION {tried[x] : x \in DOMAIN tried}

\* The Set a session tests and fills: "let tried = new Set()" and "let visited
\* = new Set()" are locals of one controller call, so each session has its own.
triedOf(s) == tried[s]

\* ------------------------------------------------------- executeZigZag
\* Mutant: run() no longer refuses a tier it has tried.
runGuardNoTried(v, l, t, r) ==
    \/ l < 1
    \/ l > NumTiers
    \/ (v = "ZigZagBudget" /\ r >= MAX_RETRIES)

\* Mutant: the first variant (script.js:70) loses its tried.has(lv) test.
runGuardPlainNoTried(v, l, t, r) ==
    \/ l < 1
    \/ l > NumTiers
    \/ (v # "ZigZagPlain" /\ l \in t)
    \/ (v = "ZigZagBudget" /\ r >= MAX_RETRIES)

\* Mutant: the budgeted variant no longer tests retries >= MAX_RETRIES.
runGuardNoBudget(v, l, t, r) ==
    \/ l < 1
    \/ l > NumTiers
    \/ l \in t

\* run()'s early "return null".
runGuard(v, l, t, r) ==
    \/ l < 1
    \/ l > NumTiers
    \/ l \in t
    \/ (v = "ZigZagBudget" /\ r >= MAX_RETRIES)

\* retries++ exists in the budgeted variant only.
bumpRetries(v, r) == IF v = "ZigZagBudget" THEN r + 1 ELSE r

run(s, l) ==
    IF runGuard(variant, l, triedOf(s), retries[s])
    THEN Finish(s, l, Null, "exhausted")
    ELSE Invoke(s, l, bumpRetries(variant, retries[s]))

\* Whether a deferral at tier l recurses into l + 1.
climbsOnDefer(v, l) ==
    CASE v = "ZigZagBudget" -> TRUE
      [] v = "ZigZagDefer"  -> l < NumTiers
      [] OTHER              -> FALSE

\* Mutant: the catch block steps down from any tier, not only the target.
retreatsAnywhere(v, l, target, t) ==
    /\ l > 1
    /\ (v = "ZigZagBudget" => (l - 1) \notin t)

\* The catch block: step down once from the target level, else climb.
retreats(v, l, target, t) ==
    /\ l = target
    /\ l > 1
    /\ (v = "ZigZagBudget" => (l - 1) \notin t)

zigZagNext(v, l, target, t) ==
    IF retreats(v, l, target, t) THEN l - 1 ELSE l + 1

\* ---------------------------------------------------- executeFullSweep
\* Mutant: each distance is probed upwards first.
StepsUpFirst == <<1, -1, 2, -2, 3, -3, 4, -4, 5, -5, 6, -6, 7, -7, 8, -8, 9, -9>>

Steps == <<-1, 1, -2, 2, -3, 3, -4, 4, -5, 5, -6, 6, -7, 7, -8, 8, -9, 9>>

\* Mutant: the while-condition stops one tier short.
loopConditionShort(visited) == Cardinality(visited) < NumTiers - 1

loopCondition(visited) == Cardinality(visited) < NumTiers

\* The for-loop over Steps from index i on: the first getSafeTier(c + step)
\* that is unvisited (the break), or 0 when found stays false.
RECURSIVE probeFrom(_, _, _)
probeFrom(c, visited, i) ==
    IF i > Len(Steps)
    THEN 0
    ELSE LET check == getSafeTier(c + Steps[i])
         IN  IF check \notin visited
             THEN check
             ELSE probeFrom(c, visited, i + 1)

probe(c, visited) == probeFrom(c, visited, 1)

\* Mutant: the climb no longer tests result.state.
sweepClimbsAnyState(o, l) == l < NumTiers

\* Deferral ("too_complex") climbs only below the top tier.
sweepClimbs(o, l) == o.kind = "Deferred" /\ l < NumTiers

\* Mutant: only the rate-limit status is classified.
needsCooldown429Only(status) == status = 429

needsCooldown(status) == status = 503 \/ status = 429

\* One pass from the while-condition to the invocation (or to return null).
sweepLoop(s, cur) ==
    IF ~loopCondition(triedOf(s))
    THEN Finish(s, cur, Null, "exhausted")
    ELSE LET c == getSafeTier(cur)
             n == IF c \in triedOf(s) THEN probe(c, triedOf(s)) ELSE c
         IN  IF n = 0
             THEN Finish(s, c, Null, "exhausted")
             ELSE Invoke(s, n, retries[s])

\* -------------------------------------------------------------- actions
\* The server is up and the requests of S have not arrived yet.
Listening(S) ==
    /\ pc = [s \in S |-> "idle"]
    /\ lv = [s \in S |-> 0]
    /\ tried = [s \in S |-> {}]
    /\ retries = [s \in S |-> 0]
    /\ calls = [s \in S |-> <<>>]
    /\ outcomes = [s \in S |-> <<>>]
    /\ last = [s \in S |-> NoOutcome]
    /\ result = [s \in S |-> Null]
    /\ exit = [s \in S |-> "none"]
    /\ response = [s \in S |-> NoResponse]
    /\ cooldowns = [s \in S |-> 0]
    /\ secretOk = [s \in S |-> FALSE]
    /\ timer = [s \in S |-> NoTimer]

Init ==
    /\ variant \in Variants
    /\ targetLevel = [s \in SeqSessions |-> 0]
    /\ Listening(SeqSessions)

\* Mutant: the secret is not compared.
forbiddenNever(authorized) == FALSE

\* if (secret !== process.env.MY_APP_SECRET) return res.status(403)...
forbidden(authorized) == ~authorized

\* POST /ask-ai arrives: the secret is compared, then the controller starts
\* and runs up to its first invocation.
Request(s, authorized, complexity) ==
    /\ pc[s] = "idle"
    /\ targetLevel' = [targetLevel EXCEPT ![s] = complexity]
    /\ secretOk' = [secretOk EXCEPT ![s] = authorized]
    /\ UNCHANGED <<variant, outcomes, last, cooldowns>>
    /\ IF forbidden(authorized)
       THEN /\ pc' = [pc EXCEPT ![s] = "done"]
            /\ exit' = [exit EXCEPT ![s] = "forbidden"]
            /\ response' = [response EXCEPT ![s] = [status |-> 403, package |-> Null]]
            /\ UNCHANGED <<lv, tried, retries, calls, result, timer>>
       ELSE IF variant \in ZigZagVariants
            THEN run(s, complexity)
            ELSE sweepLoop(s, getSafeTier(complexity))

\* An invocation of an executeZigZag session settles with outcome o.
RespondZigZag(s, o) ==
    /\ variant \in ZigZagVariants
    /\ pc[s] = "await"
    /\ Len(calls[s]) < MaxCalls
    /\ o \in OutcomesOf(variant)
    /\ last' = [last EXCEPT ![s] = o]
    /\ outcomes' = [outcomes EXCEPT ![s] = Append(@, o.kind)]
    /\ cooldowns' = [cooldowns EXCEPT ![s] = 0]
    /\ UNCHANGED <<variant, targetLevel, secretOk>>
    /\ CASE o.kind = "Failed" ->
              run(s, zigZagNext(variant, lv[s], targetLevel[s], triedOf(s)))
         [] o.kind = "Deferred" /\ climbsOnDefer(variant, lv[s]) ->
              run(s, lv[s] + 1)
         [] OTHER ->
              Finish(s, lv[s], o.payload, "package")

\* An invocation of an executeFullSweep session settles with outcome o.
RespondSweep(s, o) ==
    /\ variant = "FullSweep"
    /\ pc[s] = "await"
    /\ Len(calls[s]) < MaxCalls
    /\ o \in OutcomesOf(variant)
    /\ last' = [last EXCEPT ![s] = o]
    /\ outcomes' = [outcomes EXCEPT ![s] = Append(@, o.kind)]
    /\ cooldowns' = [cooldowns EXCEPT ![s] = 0]
    /\ UNCHANGED <<variant, targetLevel, secretOk>>
    /\ CASE o.kind = "Failed" /\ needsCooldown(o.status) ->
              /\ pc' = [pc EXCEPT ![s] = "sleep"]
              /\ UNCHANGED <<lv, tried, retries, calls, result, exit, response, timer>>
         [] o.kind = "Failed" /\ ~needsCooldown(o.status) ->
              sweepLoop(s, lv[s] - 1)
         [] sweepClimbs(o, lv[s]) ->
              sweepLoop(s, lv[s] + 1)
         [] OTHER ->
              Finish(s, lv[s], o.payload, "package")

\* sleep(1500) resolves: currentLevel-- and the next loop pass.
CooldownDone(s) ==
    /\ variant = "FullSweep"
    /\ pc[s] = "sleep"
    /\ Len(calls[s]) < MaxCalls
    /\ cooldowns' = [cooldowns EXCEPT ![s] = @ + 1]
    /\ UNCHANGED <<variant, targetLevel, outcomes, last, secretOk>>
    /\ sweepLoop(s, lv[s] - 1)

\* The timer of the invocation in flight expires and its callback runs
\* controller.abort().  The controller's signal is handed to nobody
\* (callAIProvider gets provider, model and prompt; axios.post gets only
\* headers), so the awaited call is not settled by it.
TimerFires(s) ==
    /\ variant = "ZigZagBudget"
    /\ pc[s] = "await"
    /\ timer[s].state = "armed"
    /\ timer' = [timer EXCEPT ![s].state = "fired"]
    /\ UNCHANGED <<variant, pc, targetLevel, lv, tried, retries, calls,
                   outcomes, last, result, exit, response, cooldowns, secretOk>>

Next ==
    \/ \E s \in DOMAIN pc, a \in BOOLEAN, c \in StartTiers : Request(s, a, c)
    \/ \E s \in DOMAIN pc, o \in OutcomesOf(variant) : RespondZigZag(s, o)
    \/ \E s \in DOMAIN pc, o \in OutcomesOf(variant) : RespondSweep(s, o)
    \/ \E s \in DOMAIN pc : CooldownDone(s)
    \/ \E s \in DOMAIN pc : TimerFires(s)

Spec == Init /\ [][Next]_vars

\* Every invocation settles and every cooldown timer fires.
Settles ==
    \/ \E s \in DOMAIN pc, o \in OutcomesOf(variant) : RespondZigZag(s, o)
    \/ \E s \in DOMAIN pc, o \in OutcomesOf(variant) : RespondSweep(s, o)
    \/ \E s \in DOMAIN pc : CooldownDone(s)

FairSpec == Spec /\ WF_vars(Settles)

\* ------------------------------------------------- two requests at once
\* Two /ask-ai requests are in the event loop together; their segments
\* interleave at every await.
ConcSessions == {1, 2}
ConcStartTiers == {3, 10}

ConcInit ==
    /\ variant \in Variants
    /\ targetLevel = [s \in ConcSessions |-> 0]
    /\ Listening(ConcSessions)

ConcNext ==
    \/ \E s \in DOMAIN pc, a \in BOOLEAN, c \in ConcStartTiers : Request(s, a, c)
    \/ \E s \in DOMAIN pc, o \in OutcomesOf(variant) :
           Len(outcomes[s]) < MaxConcOutcomes /\ RespondZigZag(s, o)
    \/ \E s \in DOMAIN pc, o \in OutcomesOf(variant) :
           Len(outcomes[s]) < MaxConcOutcomes /\ RespondSweep(s, o)
    \/ \E s \in DOMAIN pc : CooldownDone(s)
    \/ \E s \in DOMAIN pc : TimerFires(s)

ConcSpec == ConcInit /\ [][ConcNext]_vars

\* ------------------------------------------------- one session on its own
\* The controller as a function of its start tier and the kinds of the
\* outcomes it is given, with nothing else running: the state it is in
\* after each outcome.
soloRun(v, l, t, r, q) ==
    IF runGuard(v, l, t, r)
    THEN [done |-> TRUE, how |-> "exhausted", lv |-> l, tried |-> t,
          retries |-> r, calls |-> q]
    ELSE [done |-> FALSE, how |-> "none", lv |-> l, tried |-> markVisited(t, l),
          retries |-> bumpRetries(v, r), calls |-> Append(q, l)]

soloLoop(cur, t, r, q) ==
    IF ~loopCondition(t)
    THEN [done |-> TRUE, how |-> "exhausted", lv |-> cur, tried |-> t,
          retries |-> r, calls |-> q]
    ELSE LET c == getSafeTier(cur)
             n == IF c \in t THEN probe(c, t) ELSE c
         IN  IF n = 0
             THEN [done |-> TRUE, how |-> "exhausted", lv |-> c, tried |-> t,
                   retries |-> r, calls |-> q]
             ELSE [done |-> FALSE, how |-> "none", lv |-> n,
                   tried |-> markVisited(t, n), retries |-> r,
                   calls |-> Append(q, n)]

soloStart(v, c) ==
    IF v \in ZigZagVariants
    THEN soloRun(v, c, {}, 0, <<>>)
    ELSE soloLoop(getSafeTier(c), {}, 0, <<>>)

soloStep(v, target, st, kind) ==
    LET package == [st EXCEPT !.done = TRUE, !.how = "package"]
    IN  IF v \in ZigZagVariants
        THEN CASE kind = "Failed" ->
                    soloRun(v, zigZagNext(v, st.lv, target, st.tried),
                            st.tried, st.retries, st.calls)
               [] kind = "Deferred" /\ climbsOnDefer(v, st.lv) ->
                    soloRun(v, st.lv + 1, st.tried, st.retries, st.calls)
               [] OTHER -> package
        ELSE CASE kind = "Failed" ->
                    soloLoop(st.lv - 1, st.tried, st.retries, st.calls)
               [] kind = "Deferred" /\ st.lv < NumTiers ->
                    soloLoop(st.lv + 1, st.tried, st.retries, st.calls)
               [] OTHER -> package

RECURSIVE soloAfter(_, _, _, _)
soloAfter(v, target, kinds, n) ==
    IF n = 0
    THEN soloStart(v, target)
    ELSE soloStep(v, target, soloAfter(v, target, kinds, n - 1), kinds[n])

\* ------------------------------------------------- getSafeTier on its own
\* The clamp applied to an arbitrary integer argument: "let currentLevel =
\* getSafeTier(initialLevel)", the first statement of executeFullSweep.
ClampInputs == (0 - MaxClamp)..MaxClamp

ClampInit ==
    /\ variant = "FullSweep"
    /\ targetLevel \in [SeqSessions -> ClampInputs]
    /\ Listening(SeqSessions)

ClampApply(s) ==
    /\ pc[s] = "idle"
    /\ pc' = [pc EXCEPT ![s] = "clamped"]
    /\ lv' = [lv EXCEPT ![s] = getSafeTier(targetLevel[s])]
    /\ UNCHANGED <<variant, targetLevel, tried, retries, calls, outcomes, last,
                   result, exit, response, cooldowns, secretOk, timer>>

ClampNext == \E s \in DOMAIN pc : ClampApply(s)

ClampSpec == ClampInit /\ [][ClampNext]_vars

\* ======================================================================
\* Properties
\* ======================================================================
Authorized(s) == exit[s] # "forbidden"

AllFailed(s) == \A i \in 1..Len(outcomes[s]) : outcomes[s][i] = "Failed"

\* C1: within one session no tier is invoked more than once, in every
\* variant, for every start tier and every sequence of outcomes.
NoRepeat ==
    \A s \in DOMAIN pc :
        \A i, j \in 1..Len(calls[s]) :
            i # j => calls[s][i] # calls[s][j]

\* C1 witness: a zig-zag session whose run() was entered for a tier already
\* tried and returned null instead of invoking it again.
NoRepeatWitness ==
    \E s \in DOMAIN pc :
        /\ variant \in ZigZagVariants
        /\ pc[s] = "done"
        /\ exit[s] = "exhausted"
        /\ lv[s] \in tried[s]
        /\ Len(calls[s]) >= 2

\* C2: a Completed outcome is the last thing that happens in a session: it
\* is the final outcome, no invocation follows it, and the session returns
\* exactly its payload.
SuccessShortCircuit ==
    \A s \in DOMAIN pc :
        \A i \in 1..Len(outcomes[s]) :
            outcomes[s][i] = "Completed" =>
                /\ i = Len(outcomes[s])
                /\ Len(calls[s]) = i
                /\ pc[s] = "done"
                /\ exit[s] = "package"
                /\ last[s].kind = "Completed"
                /\ result[s] = last[s].payload

\* C2 witness: a session ended by a completion on its third invocation while
\* most tiers were still unvisited.
SuccessShortCircuitWitness ==
    \E s \in DOMAIN pc :
        /\ pc[s] = "done"
        /\ Len(outcomes[s]) = 3
        /\ outcomes[s][3] = "Completed"
        /\ result[s] = "answer-A"
        /\ Cardinality(tried[s]) < NumTiers

\* C3 (as claimed): in executeFullSweep the invocation that follows a
\* Deferred outcome at a tier t < 10 is at a tier above t.
SweepDeferralClimbs ==
    \A s \in DOMAIN pc :
        variant = "FullSweep" =>
            \A i \in 1..Len(outcomes[s]) :
                (/\ outcomes[s][i] = "Deferred"
                 /\ calls[s][i] < NumTiers
                 /\ Len(calls[s]) > i)
                => calls[s][i + 1] > calls[s][i]

\* C4 (as claimed): in executeZigZag, when the start tier s (1 < s < 10) and
\* then the retreat tier s - 1 both fail, the third invocation is at s + 1.
RetreatThenClimb ==
    \A s \in DOMAIN pc :
        (/\ variant \in ZigZagVariants
         /\ targetLevel[s] > 1
         /\ targetLevel[s] < NumTiers
         /\ Len(outcomes[s]) >= 2
         /\ outcomes[s][1] = "Failed"
         /\ outcomes[s][2] = "Failed"
         /\ calls[s][1] = targetLevel[s]
         /\ calls[s][2] = targetLevel[s] - 1)
        => /\ Len(calls[s]) >= 3
           /\ calls[s][3] = targetLevel[s] + 1

\* C5: an executeFullSweep session returns through "return null" only after
\* each of the 10 tiers was invoked exactly once, and a session in which
\* every outcome is Failed ends there after exactly 10 invocations.
SweepExhaustion ==
    \A s \in DOMAIN pc :
        variant = "FullSweep" =>
            /\ exit[s] = "exhausted" =>
                   /\ Len(calls[s]) = NumTiers
                   /\ Range(calls[s]) = Tiers
            /\ (pc[s] = "done" /\ Authorized(s) /\ AllFailed(s)) =>
                   /\ exit[s] = "exhausted"
                   /\ Len(outcomes[s]) = NumTiers

\* C5 witness: a sweep from tier 5 in which all ten tiers failed.
SweepExhaustionWitness ==
    \E s \in DOMAIN pc :
        /\ variant = "FullSweep"
        /\ targetLevel[s] = 5
        /\ exit[s] = "exhausted"
        /\ AllFailed(s)
        /\ Len(outcomes[s]) = NumTiers

\* C6 (as claimed): in the unbudgeted executeZigZag variants a session from a
\* start tier in 1..10 in which every outcome is Failed reports exhaustion
\* after exactly 10 invocations.
ZigZagAllFailedTen ==
    \A s \in DOMAIN pc :
        (/\ variant \in {"ZigZagPlain", "ZigZagDefer"}
         /\ pc[s] = "done"
         /\ Authorized(s)
         /\ targetLevel[s] \in Tiers
         /\ AllFailed(s))
        => /\ exit[s] = "exhausted"
           /\ Len(calls[s]) = NumTiers

\* C7 (as claimed): in the variants that recognise deferral a session
\* returns a package, and the endpoint answers 200, only when the last
\* outcome was Completed.
SuccessOnlyOnCompleted ==
    \A s \in DOMAIN pc :
        (/\ variant \in DeferralVariants
         /\ (exit[s] = "package" \/ response[s].status = 200))
        => last[s].kind = "Completed"

\* C8 (as claimed): in the executeZigZag variants that recognise deferral,
\* after a Deferred outcome at a tier t < 10 with the retry budget not
\* spent, tier t + 1 is invoked.
ZigZagDeferralInvokesNext ==
    \A s \in DOMAIN pc :
        LET n == Len(outcomes[s])
        IN  (/\ variant \in {"ZigZagBudget", "ZigZagDefer"}
             /\ n >= 1
             /\ outcomes[s][n] = "Deferred"
             /\ calls[s][n] < NumTiers
             /\ (variant = "ZigZagBudget" => retries[s] < MAX_RETRIES))
            => /\ Len(calls[s]) = n + 1
               /\ calls[s][n + 1] = calls[s][n] + 1

\* C9: a session performs at most 10 invocations in executeFullSweep and at
\* most 20 in executeZigZag.
BoundedWork ==
    \A s \in DOMAIN pc :
        /\ variant = "FullSweep" => Len(calls[s]) <= NumTiers
        /\ variant \in ZigZagVariants => Len(calls[s]) <= 2 * NumTiers

\* C9 witness: a sweep that has made its tenth invocation and was answered.
BoundedWorkWitness ==
    \E s \in DOMAIN pc :
        /\ variant = "FullSweep"
        /\ Len(calls[s]) = NumTiers
        /\ Len(outcomes[s]) = NumTiers

\* C10: when every invocation settles and every cooldown timer fires, a
\* started session ends (with a payload or with exhaustion).
Termination ==
    \A s \in SeqSessions :
        (pc[s] \in {"await", "sleep"}) ~> (pc[s] = "done")

\* C10 witness: a zig-zag session that climbed through all ten tiers and
\* then returned.
TerminationWitness ==
    \E s \in DOMAIN pc :
        /\ variant \in ZigZagVariants
        /\ pc[s] = "done"
        /\ Len(calls[s]) = NumTiers
        /\ exit[s] \in {"package", "exhausted"}

\* C11: in the budgeted executeZigZag a session never makes more than
\* MAX_RETRIES = 3 invocations, and once the third invocation has been
\* answered by anything but Completed the session has ended unsuccessfully
\* (null result, 503 response), whatever tiers are unvisited.
BudgetCap ==
    \A s \in DOMAIN pc :
        variant = "ZigZagBudget" =>
            /\ Len(calls[s]) <= 3
            /\ retries[s] = Len(calls[s])
            /\ (Len(outcomes[s]) = 3 /\ outcomes[s][3] # "Completed") =>
                   /\ pc[s] = "done"
                   /\ exit[s] = "exhausted"
                   /\ result[s] = Null
                   /\ response[s].status = 503

\* C11 witness: a budgeted session stopped by the budget in front of a tier
\* in range that it had not tried.
BudgetCapWitness ==
    \E s \in DOMAIN pc :
        /\ variant = "ZigZagBudget"
        /\ pc[s] = "done"
        /\ exit[s] = "exhausted"
        /\ Len(calls[s]) = 3
        /\ lv[s] \in Tiers
        /\ lv[s] \notin tried[s]

\* C12: for every integer x, y = getSafeTier(x) is in 1..10; y = 1 for
\* x = 0; y = x for x in 1..10; y = 10 for x >= 10; and y = k for x = -k with
\* k in 1..10 (so getSafeTier(-k) = getSafeTier(k)).
ClampValues ==
    \A s \in DOMAIN pc :
        pc[s] = "clamped" =>
            LET x == targetLevel[s]
                y == lv[s]
            IN  /\ y \in Tiers
                /\ x = 0 => y = 1
                /\ x \in Tiers => y = x
                /\ x >= NumTiers => y = NumTiers
                /\ (x < 0 /\ (0 - x) \in Tiers) => y = 0 - x

\* C12 witness: a negative argument in range folded to its absolute value.
ClampValuesWitness ==
    \E s \in DOMAIN pc :
        /\ pc[s] = "clamped"
        /\ targetLevel[s] = 0 - 7
        /\ lv[s] = 7

\* The tier spec.md's clamp assigns to start tier x: zero folds to 1, a
\* negative number to its absolute value, anything above 10 to 10.
ClampedStart(x) ==
    IF x = 0 THEN 1
    ELSE IF Abs(x) > NumTiers THEN NumTiers
    ELSE Abs(x)

\* C13: an authorized executeFullSweep session makes its first invocation at
\* the clamped start tier, whatever integer startTier is, and every
\* invocation of the session is at a tier in 1..10.
SweepStartClamped ==
    \A s \in DOMAIN pc :
        (variant = "FullSweep" /\ pc[s] # "idle" /\ secretOk[s]) =>
            /\ Len(calls[s]) >= 1
            /\ calls[s][1] = ClampedStart(targetLevel[s])
            /\ \A i \in 1..Len(calls[s]) : calls[s][i] \in Tiers

\* C13 witness: a sweep asked for tier 12 that started at tier 10 and went
\* on to a third invocation.
SweepStartClampedWitness ==
    \E s \in DOMAIN pc :
        /\ variant = "FullSweep"
        /\ targetLevel[s] = NumTiers + 2
        /\ Len(calls[s]) = 3
        /\ calls[s][1] = NumTiers

\* C14 (as claimed): an authorized executeZigZag session makes its first
\* invocation at the clamped start tier (15 -> 10, 0 -> 1, -k -> k).
ZigZagStartClamped ==
    \A s \in DOMAIN pc :
        (variant \in ZigZagVariants /\ pc[s] # "idle" /\ secretOk[s]) =>
            /\ Len(calls[s]) >= 1
            /\ calls[s][1] = ClampedStart(targetLevel[s])

\* C15 (as claimed): an authorized request gets the failure envelope (503)
\* exactly when its session ended exhausted, and a session ended by a
\* Completed outcome gets the success envelope carrying that outcome's
\* package, whatever its value.
EnvelopeMatchesOutcome ==
    \A s \in DOMAIN pc :
        (pc[s] = "done" /\ secretOk[s]) =>
            /\ exit[s] = "exhausted" <=> response[s].status = 503
            /\ (exit[s] = "package" /\ last[s].kind = "Completed") =>
                   response[s] = [status |-> 200, package |-> last[s].payload]

\* C16: a request with a wrong secret is answered 403 and nothing else
\* happens for it: no controller state, no invocation, no outcome; and a
\* request with the right secret is never answered 403.
UnauthorizedShortCircuit ==
    \A s \in DOMAIN pc :
        pc[s] # "idle" =>
            /\ ~secretOk[s] =>
                   /\ pc[s] = "done"
                   /\ exit[s] = "forbidden"
                   /\ response[s].status = 403
                   /\ calls[s] = <<>>
                   /\ outcomes[s] = <<>>
                   /\ tried[s] = {}
                   /\ retries[s] = 0
                   /\ result[s] = Null
            /\ secretOk[s] =>
                   /\ exit[s] # "forbidden"
                   /\ response[s].status # 403

\* C16 witness: a request for tier 5 with a wrong secret, answered 403.
UnauthorizedShortCircuitWitness ==
    \E s \in DOMAIN pc :
        /\ pc[s] = "done"
        /\ ~secretOk[s]
        /\ targetLevel[s] = 5
        /\ response[s].status = 403

\* C17: with two sessions interleaved in any order, each session's
\* invocation sequence, tried set, retry counter, current tier and way of
\* ending are those of the same controller run alone on that session's
\* start tier and outcomes.  (A session asleep in its cooldown has not yet
\* taken the step that follows its last outcome.)
SessionsIndependent ==
    \A s \in DOMAIN pc :
        (pc[s] # "idle" /\ secretOk[s]) =>
            LET n  == Len(outcomes[s])
                st == soloAfter(variant, targetLevel[s], outcomes[s],
                                IF pc[s] = "sleep" THEN n - 1 ELSE n)
            IN  /\ calls[s] = st.calls
                /\ tried[s] = st.tried
                /\ retries[s] = st.retries
                /\ lv[s] = st.lv
                /\ pc[s] # "sleep" =>
                       /\ (pc[s] = "done") = st.done
                       /\ exit[s] = st.how
                /\ exit[s] = "package" => result[s] = last[s].payload
                /\ exit[s] = "exhausted" => result[s] = Null

\* C17 witness: two sessions in flight together, both started at tier 3,
\* both retreated to tier 2 after a failure: each invoked the tiers the
\* other had already tried.
SessionsIndependentWitness ==
    /\ DOMAIN pc = ConcSessions
    /\ \A s \in ConcSessions :
           /\ pc[s] = "await"
           /\ calls[s] = <<3, 2>>

\* C18: in the budgeted variant a timer that has fired ends its invocation:
\* no session is still waiting on the backend once the timer of the
\* invocation in flight has expired.
TimeoutEndsInvocation ==
    \A s \in DOMAIN pc :
        variant = "ZigZagBudget" =>
            ~(timer[s].state = "fired" /\ pc[s] = "await")

\* The tiers invoked up to and including the i-th invocation.
visitedAt(s, i) == {calls[s][j] : j \in 1..i}

\* u is an unvisited tier nearest to c, the lower tier winning a tie.
nearestUnvisited(u, c, visited) ==
    /\ u \in Tiers \ visited
    /\ \A w \in Tiers \ visited :
           \/ Abs(u - c) < Abs(w - c)
           \/ (Abs(u - c) = Abs(w - c) /\ u <= w)

\* C19: in the sweep, after a Failed outcome at tier t with unvisited tiers
\* left, the next tier invoked is t-1 when t > 1 and t-1 is unvisited,
\* otherwise the unvisited tier nearest to clamp(t-1) with the lower tier
\* winning a tie; and a next tier is always invoked (once the cooldown, if
\* any, is over).
SweepNextAfterFailed ==
    \A s \in DOMAIN pc :
        (variant = "FullSweep" /\ secretOk[s]) =>
            \A i \in 1..Len(outcomes[s]) :
                LET t == calls[s][i]
                    visited == visitedAt(s, i)
                    c == IF t > 1 THEN t - 1 ELSE 1
                IN  (outcomes[s][i] = "Failed" /\ visited # Tiers) =>
                        IF Len(calls[s]) > i
                        THEN LET next == calls[s][i + 1]
                             IN  /\ (t > 1 /\ (t - 1) \notin visited) => next = t - 1
                                 /\ nearestUnvisited(next, c, visited)
                        ELSE i = Len(outcomes[s]) /\ pc[s] = "sleep"

\* C19 witness: a failure at tier t whose t-1 was already visited, with
\* unvisited tiers at the same distance below and above, answered by an
\* invocation of the lower one.
SweepNextAfterFailedWitness ==
    \E s \in DOMAIN pc :
        /\ variant = "FullSweep"
        /\ \E i \in 1..Len(outcomes[s]) :
               LET t == calls[s][i]
                   visited == visitedAt(s, i)
               IN  /\ outcomes[s][i] = "Failed"
                   /\ t > 1
                   /\ (t - 1) \in visited
                   /\ Len(calls[s]) > i
                   /\ \E d \in 1..NumTiers :
                          /\ calls[s][i + 1] = (t - 1) - d
                          /\ ((t - 1) + d) \in Tiers \ visited

\* The last outcome of session s is a rate-limit/overload failure.
Overloaded(s) == last[s].kind = "Failed" /\ last[s].status \in {429, 503}

\* C20: the sweep sleeps only after a failure with status 429 or 503; when
\* the session has moved on from an outcome (to its next invocation or to
\* its end) exactly one cooldown has completed since that outcome if it was
\* such a failure, and none otherwise.
CooldownExactly ==
    \A s \in DOMAIN pc :
        (variant = "FullSweep" /\ Len(outcomes[s]) >= 1) =>
            /\ pc[s] = "sleep" => (Overloaded(s) /\ cooldowns[s] = 0)
            /\ pc[s] # "sleep" => cooldowns[s] = (IF Overloaded(s) THEN 1 ELSE 0)

\* C20 witness: after a 503 the sweep has slept once and is invoking its
\* next tier.
CooldownExactlyWitness ==
    \E s \in DOMAIN pc :
        /\ variant = "FullSweep"
        /\ pc[s] = "await"
        /\ last[s].kind = "Failed"
        /\ last[s].status = 503
        /\ cooldowns[s] = 1
        /\ Len(calls[s]) = Len(outcomes[s]) + 1

\* C21: in every zig-zag session an invocation below the start tier is
\* the second invocation, is at startTier - 1, and directly follows a Failed
\* outcome of the start tier itself; so there is at most one, never after a
\* Deferred and never from another tier.
SingleRetreat ==
    \A s \in DOMAIN pc :
        (variant \in ZigZagVariants /\ secretOk[s]) =>
            \A i \in 1..Len(calls[s]) :
                calls[s][i] < targetLevel[s] =>
                    /\ i = 2
                    /\ calls[s][i] = targetLevel[s] - 1
                    /\ calls[s][1] = targetLevel[s]
                    /\ outcomes[s][1] = "Failed"

\* C21 witness: the start tier failed and the session is invoking the tier
\* just below it.
SingleRetreatWitness ==
    \E s \in DOMAIN pc :
        /\ variant \in ZigZagVariants
        /\ pc[s] = "await"
        /\ Len(calls[s]) = 2
        /\ calls[s][1] = targetLevel[s]
        /\ calls[s][2] = targetLevel[s] - 1
        /\ outcomes[s] = <<"Failed">>

====
